---- MODULE Spec2Model ----
(***************************************************************************)
(* Model of the two Dapr policy modules of azure-cli-extensions:           *)
(*   - containerapp/_dapr_utils.py : DaprUtils (service + Dapr component   *)
(*     provisioning against the Container Apps control plane);             *)
(*   - k8s-extension/partner_extensions/Dapr.py : Dapr.Create and          *)
(*     Dapr._get_release_info (release naming, HA override).               *)
(* Spec      : concurrent CLI processes running DaprUtils operations       *)
(*             against one shared resource store.                          *)
(* SpecAddon : one CLI process running Dapr.Create, with its prompts.      *)
(***************************************************************************)
EXTENDS Naturals, FiniteSets, Sequences, TLC

(* ------------------------------ bounds --------------------------------- *)
\* number of DaprUtils operations the first CLI process runs one after the
\* other; the second process runs one operation, concurrently with the first
\* operation of the first process
MaxRuns == 2

Procs == {"cli1", "cli2"}

\* Python's None, where a string or an id is expected
None == "<None>"
NoId == None
\* the id the control plane assigns to a resource: its path
ResourceId(kind, name) == "/" \o kind \o "/" \o name

(* ----------------------- DaprUtils: static tables ---------------------- *)
supported_dapr_components ==
    [state |-> {"redis", "postgres"}, pubsub |-> {"kafka", "redis"}]

\* keys of the dict returned by _get_supported_services
get_supported_services == {"redis", "postgres", "kafka"}

get_service_name(service_type) == "dapr-" \o service_type

get_dapr_component_name(component_type, service_type) ==
    LET prefix == IF component_type = "state" THEN "statestore" ELSE component_type
    IN  prefix \o "-" \o service_type

\* the guard of _create_dapr_component_from_service, negated
BindingSupported(component_type, service_type) ==
    /\ component_type \in DOMAIN supported_dapr_components
    /\ service_type \in supported_dapr_components[component_type]

(* ------------------------------ inputs --------------------------------- *)
\* (component_type, service_type) arguments: two supported pairs sharing one
\* service, a pair missing from the table whose service is supported, a
\* component type that is no key of the table, an unsupported service
BindingInputs ==
    {<<"state", "redis">>, <<"pubsub", "redis">>, <<"pubsub", "postgres">>,
     <<"bindings", "redis">>, <<"state", "mysql">>}
ServiceTypeInputs == {"redis", "postgres", "mysql"}

ServiceNames == {get_service_name(s) : s \in get_supported_services}
ComponentNames ==
    UNION {{get_dapr_component_name(c, s) : s \in supported_dapr_components[c]} :
              c \in DOMAIN supported_dapr_components}

(* ---------------------------- descriptors ------------------------------ *)
NoneDef == [isNone |-> TRUE, id |-> NoId]
ServiceDef(i) == [isNone |-> FALSE, id |-> i]

NoneComponent ==
    [isNone |-> TRUE, id |-> NoId, componentType |-> "", version |-> "",
     ignoreErrors |-> FALSE, bindName |-> "", bindServiceId |-> NoId]

get_dapr_component_def_from_service(component_type, service_type, service_name, service_id) ==
    [isNone |-> FALSE, id |-> NoId,
     componentType |-> component_type \o "." \o service_type,
     version |-> "v1", ignoreErrors |-> FALSE,
     bindName |-> service_name, bindServiceId |-> service_id]

\* custom.safe_get(d, "id", default=None)
safe_get_id(def) == IF def.isNone THEN NoId ELSE def.id

NoResult == [kind |-> "none", msg |-> "", service_id |-> NoId, component_id |-> NoId]
Raise(m) == [kind |-> "ValidationError", msg |-> m, service_id |-> NoId, component_id |-> NoId]
Return(sid, cid) == [kind |-> "ok", msg |-> "", service_id |-> sid, component_id |-> cid]

NoCalls == [svcShow |-> 0, svcCreate |-> 0, compShow |-> 0, compCreate |-> 0]
NoArgs == [op |-> "", component_type |-> "", service_type |-> "",
           service_name |-> "", service_id |-> NoId]

VARIABLES
    services,       \* control plane: service name -> descriptor or NoneDef
    components,     \* control plane: component name -> descriptor or NoneComponent
    pc,             \* per process: position in the running operation
    args,           \* per process: arguments of the running operation
    service_def,    \* per process: local service_def
    service_id,     \* per process: local service_id
    component_def,  \* per process: local component_def / component
    result,         \* per process: outcome of the operation
    calls,          \* per process: client calls made by the running operation
    svcLookup,      \* per process: outcome of ContainerAppClient.show
    compLookup,     \* per process: outcome of DaprComponentPreviewClient.show
    raced,          \* per process: create was called on a name the store held
    svcCreates,     \* service name -> creation callback invocations
    svcCreated,     \* service name -> creation callback invocations that returned a descriptor
    compCreates,    \* component name -> create_or_update invocations
    compCreated,    \* component name -> create_or_update invocations that returned a descriptor
    lookupFault,    \* some show failed or returned nothing for a stored resource
    overlapped,     \* some operation started while another was in flight
    runs            \* operations the first process started so far

provVars == <<services, components, pc, args, service_def, service_id,
              component_def, result, calls, svcLookup, compLookup, raced,
              svcCreates, svcCreated, compCreates, compCreated,
              lookupFault, overlapped, runs>>

VARIABLES
    apc,                    \* position of Dapr.Create
    cargs,                  \* arguments Dapr.Create was called with
    configuration_settings, \* the dict passed to Create, mutated in place
    release,                \* locals name, namespace, dapr_exists of _get_release_info
    prompts,                \* prompts issued by the running Create
    ret                     \* what Create returned or raised

addonVars == <<apc, cargs, configuration_settings, release, prompts, ret>>

vars == <<provVars, addonVars>>

(* --------------------- resource store at start ------------------------- *)
\* a component left by an earlier deployment: bound to this naming scheme's
\* service or to a service of another name and id
ForeignService == "legacy-cache"

InitServices ==
    {[n \in ServiceNames |-> NoneDef]}
    \cup {[n \in ServiceNames |->
              IF n = m
              THEN ServiceDef(IF hasId THEN ResourceId("containerApps", m) ELSE NoId)
              ELSE NoneDef] :
             m \in {get_service_name("redis")}, hasId \in BOOLEAN}

InitComponents ==
    {[n \in ComponentNames |-> NoneComponent]}
    \cup {[n \in ComponentNames |->
              IF n = "statestore-redis"
              THEN [get_dapr_component_def_from_service(
                        "state", "redis", b, ResourceId("containerApps", b))
                       EXCEPT !.id = i]
              ELSE NoneComponent] :
             b \in {get_service_name("redis"), ForeignService},
             i \in {ResourceId("daprComponents", "statestore-redis")}}
    \cup {[n \in ComponentNames |->
              IF n = "pubsub-redis"
              THEN get_dapr_component_def_from_service(
                       "pubsub", "redis", get_service_name("redis"),
                       ResourceId("containerApps", get_service_name("redis")))
              ELSE NoneComponent]}

InFlight(p) == pc[p] \notin {"idle", "done"}

ProvStart ==
    /\ pc = [p \in Procs |-> "idle"]
    /\ args = [p \in Procs |-> NoArgs]
    /\ service_def = [p \in Procs |-> NoneDef]
    /\ service_id = [p \in Procs |-> NoId]
    /\ component_def = [p \in Procs |-> NoneComponent]
    /\ result = [p \in Procs |-> NoResult]
    /\ calls = [p \in Procs |-> NoCalls]
    /\ svcLookup = [p \in Procs |-> "none"]
    /\ compLookup = [p \in Procs |-> "none"]
    /\ raced = [p \in Procs |-> FALSE]
    /\ svcCreates = [n \in ServiceNames |-> 0]
    /\ svcCreated = [n \in ServiceNames |-> 0]
    /\ compCreates = [n \in ComponentNames |-> 0]
    /\ compCreated = [n \in ComponentNames |-> 0]
    /\ lookupFault = FALSE
    /\ overlapped = FALSE
    /\ runs = 0

(* ------------------------- Dapr.py: constants -------------------------- *)
DEFAULT_RELEASE_NAME == "dapr"
DEFAULT_RELEASE_NAMESPACE == "dapr-system"
DEFAULT_RELEASE_TRAIN == "stable"
DEFAULT_CLUSTER_TYPE == "managedclusters"
DEFAULT_HA == "true"
CLUSTER_TYPE_KEY == "global.clusterType"
HA_KEY == "global.ha.enabled"
SKIP_EXISTING_DAPR_CHECK_KEY == "skipExistingDaprCheck"
EXISTING_DAPR_RELEASE_NAME_KEY == "existingDaprReleaseName"
EXISTING_DAPR_RELEASE_NAMESPACE_KEY == "existingDaprReleaseNamespace"

(* --------------------- Dapr.py: Python primitives ---------------------- *)
\* dict.get(key, default)
Get(d, k, default) == IF k \in DOMAIN d THEN d[k] ELSE default

\* d[key] = value
Put(d, k, v) == [x \in DOMAIN d \cup {k} |-> IF x = k THEN v ELSE d[x]]

\* truth value of an Optional[str]
Truthy(x) == x # None /\ x # ""

\* x or default
OrElse(x, default) == IF Truthy(x) THEN x ELSE default

\* str.lower() on the cluster types the model passes
Lower(x) ==
    CASE x = "managedClusters" -> "managedclusters"
      [] x = "connectedClusters" -> "connectedclusters"
      [] OTHER -> x

(* -------------------------- Dapr.py: inputs ---------------------------- *)
Absent == "<absent>"

SettingsChoices ==
    [skipExistingDaprCheck : {Absent, "true", "false"},
     existingDaprReleaseName : {Absent, "", "old-dapr"},
     existingDaprReleaseNamespace : {Absent, "", "old-ns"},
     ha : {Absent, "true", "false", "auto"}]

\* the configuration_settings dict holding the chosen keys
SettingsDict(c) ==
    LET all == (SKIP_EXISTING_DAPR_CHECK_KEY :> c.skipExistingDaprCheck)
               @@ (EXISTING_DAPR_RELEASE_NAME_KEY :> c.existingDaprReleaseName)
               @@ (EXISTING_DAPR_RELEASE_NAMESPACE_KEY :> c.existingDaprReleaseNamespace)
               @@ (HA_KEY :> c.ha)
    IN  [k \in {x \in DOMAIN all : all[x] # Absent} |-> all[k]]

CreateInputs ==
    [scope : {"cluster", "namespace"},
     name : {None, "my-dapr"},
     release_namespace : {None, "my-ns"},
     cluster_type : {"", "managedClusters", "connectedClusters"},
     release_train : {None, "dev"},
     configuration_settings : {SettingsDict(c) : c \in SettingsChoices}]

PromptTexts == {"", "typed"}

NoCreateArgs ==
    [scope |-> "", name |-> None, release_namespace |-> None, cluster_type |-> "",
     release_train |-> None, configuration_settings |-> <<>>]
NoRelease == [name |-> None, namespace |-> None, dapr_exists |-> FALSE]
NoPrompts == [y_n |-> 0, text |-> 0]
NoRet == [kind |-> "none"]

AddonStart ==
    /\ apc = "idle"
    /\ cargs = NoCreateArgs
    /\ configuration_settings = <<>>
    /\ release = NoRelease
    /\ prompts = NoPrompts
    /\ ret = NoRet

Init ==
    /\ services \in InitServices
    /\ components \in InitComponents
    /\ ProvStart
    /\ AddonStart

InitAddon ==
    /\ services = [n \in ServiceNames |-> NoneDef]
    /\ components = [n \in ComponentNames |-> NoneComponent]
    /\ ProvStart
    /\ AddonStart

(* ----------------------- control-plane outcomes ------------------------ *)
\* show(): the stored resource, a not-found failure, any other failure, or
\* a response without a resource
ShowOutcomes(stored) ==
    (IF stored.isNone THEN {"notfound"} ELSE {"found"}) \cup {"error", "empty"}

\* create / create_or_update: raises, returns None, or returns the resource,
\* with the id the control plane assigned or without an id
CreateOutcomes(kind, name) ==
    {[kind |-> "raise", id |-> NoId], [kind |-> "none", id |-> NoId],
     [kind |-> "ok", id |-> NoId], [kind |-> "ok", id |-> ResourceId(kind, name)]}

(* ----------------- DaprUtils: decisions between client calls ----------- *)
Step(p, r) == [pc |-> p, result |-> r]

\* _create_dapr_component_from_service, lines 110-120: the compatibility check
create_dapr_component_entry(component_type, service_type) ==
    IF ~BindingSupported(component_type, service_type)
    THEN Step("done", Raise("binding not supported"))
    ELSE Step("comp_show", NoResult)

\* _create_service, lines 180-186: the supported-service check
create_service_entry(service_type) ==
    IF service_type \notin get_supported_services
    THEN Step("done", Raise("service type not supported"))
    ELSE Step("svc_show", NoResult)

\* ServiceReturned without the "service id is None" check of lines 250-253
ServiceReturned_NoIdCheck(op, component_type, service_type, def) ==
    IF op = "service"
    THEN Step("done", Return(NoId, NoId))
    ELSE create_dapr_component_entry(component_type, service_type)

\* create_service_and_dapr_component, lines 249-263: what follows the return
\* of _create_service (a direct call of _create_service just returns)
ServiceReturned(op, component_type, service_type, def) ==
    IF op = "service"
    THEN Step("done", Return(NoId, NoId))
    ELSE IF safe_get_id(def) = NoId
         THEN Step("done", Raise("service id is None"))
         ELSE create_dapr_component_entry(component_type, service_type)

\* AfterServiceShow without the early return of lines 195-201
AfterServiceShow_AlwaysCreate(op, component_type, service_type, def) ==
    Step("svc_create", NoResult)

\* AfterServiceShow with the test of line 195 inverted
AfterServiceShow_Inverted(op, component_type, service_type, def) ==
    IF def.isNone
    THEN Step("done", Raise("service definition is None"))
    ELSE Step("svc_create", NoResult)

\* _create_service, lines 195-205: return the service found, else create
AfterServiceShow(op, component_type, service_type, def) ==
    IF ~def.isNone
    THEN ServiceReturned(op, component_type, service_type, def)
    ELSE Step("svc_create", NoResult)

\* _create_service, lines 207-224: outcome of the creation callback
AfterServiceCreate(op, component_type, service_type, outcome, def) ==
    IF outcome = "raise"
    THEN Step("done", Raise("failed to create service"))
    ELSE IF def.isNone
         THEN Step("done", Raise("service definition is None"))
         ELSE ServiceReturned(op, component_type, service_type, def)

\* create_service_and_dapr_component, lines 264-271: what follows the return
\* of _create_dapr_component_from_service
ComponentReturned(op, sid, def) ==
    IF op = "component"
    THEN Step("done", Return(NoId, NoId))
    ELSE IF safe_get_id(def) = NoId
         THEN Step("done", Raise("component id is None"))
         ELSE Step("done", Return(sid, safe_get_id(def)))

\* AfterComponentShow without the early return of lines 132-136
AfterComponentShow_AlwaysCreate(op, sid, def) ==
    Step("comp_create", NoResult)

\* _create_dapr_component_from_service, lines 132-139
AfterComponentShow(op, sid, def) ==
    IF ~def.isNone
    THEN ComponentReturned(op, sid, def)
    ELSE Step("comp_create", NoResult)

\* _create_dapr_component_from_service, lines 143-162
AfterComponentCreate(op, sid, outcome, def) ==
    IF outcome = "raise"
    THEN Step("done", Raise("failed to create component"))
    ELSE IF def.isNone
         THEN Step("done", Raise("component definition is None"))
         ELSE ComponentReturned(op, sid, def)

(* --------------------------- DaprUtils: actions ------------------------ *)
Goto(p, s) ==
    /\ pc' = [pc EXCEPT ![p] = s.pc]
    /\ result' = [result EXCEPT ![p] = s.result]

\* a CLI process starts an operation: locals and the call log start afresh
Begin(p, a) ==
    /\ pc[p] \in {"idle", "done"}
    /\ p = "cli1" => runs < MaxRuns /\ ~overlapped
    /\ p = "cli2" => pc[p] = "idle" /\ runs = 1 /\ InFlight("cli1")
    /\ runs' = IF p = "cli1" THEN runs + 1 ELSE runs
    /\ overlapped' = (overlapped \/ p = "cli2")
    /\ args' = [args EXCEPT ![p] = a]
    /\ calls' = [calls EXCEPT ![p] = NoCalls]
    /\ svcLookup' = [svcLookup EXCEPT ![p] = "none"]
    /\ compLookup' = [compLookup EXCEPT ![p] = "none"]
    /\ raced' = [raced EXCEPT ![p] = FALSE]
    /\ service_def' = [service_def EXCEPT ![p] = NoneDef]
    /\ service_id' = [service_id EXCEPT ![p] = a.service_id]
    /\ component_def' = [component_def EXCEPT ![p] = NoneComponent]
    /\ UNCHANGED <<services, components, svcCreates, svcCreated, compCreates,
                   compCreated, lookupFault, addonVars>>

\* create_service_and_dapr_component up to the first client call
create_service_and_dapr_component(p, component_type, service_type) ==
    /\ Begin(p, [op |-> "provision", component_type |-> component_type,
                 service_type |-> service_type,
                 service_name |-> get_service_name(service_type),
                 service_id |-> NoId])
    /\ Goto(p, create_service_entry(service_type))

\* _create_service called on its own, up to the first client call
create_service(p, service_type) ==
    /\ Begin(p, [op |-> "service", component_type |-> "",
                 service_type |-> service_type,
                 service_name |-> get_service_name(service_type),
                 service_id |-> NoId])
    /\ Goto(p, create_service_entry(service_type))

\* _create_dapr_component_from_service called on its own, up to the first
\* client call
create_dapr_component_from_service(p, component_type, service_type, sid) ==
    /\ Begin(p, [op |-> "component", component_type |-> component_type,
                 service_type |-> service_type,
                 service_name |-> get_service_name(service_type),
                 service_id |-> sid])
    /\ Goto(p, create_dapr_component_entry(component_type, service_type))

\* ContainerAppClient.show and the code up to the next client call
ContainerAppClient_show(p) ==
    /\ pc[p] = "svc_show"
    /\ LET a == args[p]
           stored == services[a.service_name]
       IN  \E o \in ShowOutcomes(stored) :
             LET def == IF o = "found" THEN stored ELSE NoneDef
                 s == AfterServiceShow(a.op, a.component_type, a.service_type, def)
             IN  /\ svcLookup' = [svcLookup EXCEPT ![p] = o]
                 /\ lookupFault' = (lookupFault \/ (o \in {"error", "empty"} /\ ~stored.isNone))
                 /\ service_def' = [service_def EXCEPT ![p] = def]
                 /\ service_id' = [service_id EXCEPT ![p] =
                                      IF a.op = "provision" /\ ~def.isNone
                                      THEN safe_get_id(def) ELSE @]
                 /\ Goto(p, s)
    /\ calls' = [calls EXCEPT ![p].svcShow = @ + 1]
    /\ UNCHANGED <<services, components, args, component_def, compLookup, raced,
                   svcCreates, svcCreated, compCreates, compCreated, overlapped, runs,
                   addonVars>>

\* the creation callback (create_redis_service, ...) and the code up to the
\* next client call
create_service_func(p) ==
    /\ pc[p] = "svc_create"
    /\ LET a == args[p]
           stored == services[a.service_name]
       IN  \E o \in CreateOutcomes("containerApps", a.service_name) :
             LET kept == IF stored.isNone THEN ServiceDef(o.id) ELSE stored
                 def == IF o.kind = "ok" THEN kept ELSE NoneDef
                 s == AfterServiceCreate(a.op, a.component_type, a.service_type, o.kind, def)
             IN  /\ services' = [services EXCEPT ![a.service_name] =
                                    IF o.kind = "ok" THEN kept ELSE @]
                 /\ svcCreated' = [svcCreated EXCEPT ![a.service_name] =
                                      IF o.kind = "ok" THEN @ + 1 ELSE @]
                 /\ service_def' = [service_def EXCEPT ![p] = def]
                 /\ service_id' = [service_id EXCEPT ![p] =
                                      IF a.op = "provision" /\ ~def.isNone
                                      THEN safe_get_id(def) ELSE @]
                 /\ Goto(p, s)
           /\ svcCreates' = [svcCreates EXCEPT ![a.service_name] = @ + 1]
           /\ raced' = [raced EXCEPT ![p] = ~stored.isNone]
    /\ calls' = [calls EXCEPT ![p].svcCreate = @ + 1]
    /\ UNCHANGED <<components, args, component_def, svcLookup, compLookup,
                   compCreates, compCreated, lookupFault, overlapped, runs, addonVars>>

\* DaprComponentPreviewClient.show and the code up to the next client call
DaprComponentPreviewClient_show(p) ==
    /\ pc[p] = "comp_show"
    /\ LET a == args[p]
           component_name == get_dapr_component_name(a.component_type, a.service_type)
           stored == components[component_name]
       IN  \E o \in ShowOutcomes(stored) :
             LET def == IF o = "found" THEN stored ELSE NoneComponent
                 s == AfterComponentShow(a.op, service_id[p], def)
             IN  /\ compLookup' = [compLookup EXCEPT ![p] = o]
                 /\ lookupFault' = (lookupFault \/ (o \in {"error", "empty"} /\ ~stored.isNone))
                 /\ component_def' = [component_def EXCEPT ![p] = def]
                 /\ Goto(p, s)
    /\ calls' = [calls EXCEPT ![p].compShow = @ + 1]
    /\ UNCHANGED <<services, components, args, service_def, service_id, svcLookup,
                   raced, svcCreates, svcCreated, compCreates, compCreated,
                   overlapped, runs, addonVars>>

\* DaprComponentPreviewClient.create_or_update and the rest of the operation
DaprComponentPreviewClient_create_or_update(p) ==
    /\ pc[p] = "comp_create"
    /\ LET a == args[p]
           component_name == get_dapr_component_name(a.component_type, a.service_type)
           stored == components[component_name]
           payload == get_dapr_component_def_from_service(
                          a.component_type, a.service_type, a.service_name, service_id[p])
       IN  \E o \in CreateOutcomes("daprComponents", component_name) :
             LET put == [payload EXCEPT !.id = IF stored.isNone THEN o.id ELSE stored.id]
                 def == IF o.kind = "ok" THEN put ELSE NoneComponent
                 s == AfterComponentCreate(a.op, service_id[p], o.kind, def)
             IN  /\ components' = [components EXCEPT ![component_name] =
                                      IF o.kind = "ok" THEN put ELSE @]
                 /\ compCreated' = [compCreated EXCEPT ![component_name] =
                                       IF o.kind = "ok" THEN @ + 1 ELSE @]
                 /\ component_def' = [component_def EXCEPT ![p] = def]
                 /\ Goto(p, s)
           /\ compCreates' = [compCreates EXCEPT ![component_name] = @ + 1]
    /\ calls' = [calls EXCEPT ![p].compCreate = @ + 1]
    /\ UNCHANGED <<services, args, service_def, service_id, svcLookup, compLookup,
                   raced, svcCreates, svcCreated, lookupFault, overlapped, runs,
                   addonVars>>

Next ==
    \/ \E p \in Procs, b \in BindingInputs :
          create_service_and_dapr_component(p, b[1], b[2])
    \/ \E p \in Procs, s \in ServiceTypeInputs : create_service(p, s)
    \/ \E p \in Procs, b \in BindingInputs :
          create_dapr_component_from_service(
              p, b[1], b[2], ResourceId("containerApps", get_service_name(b[2])))
    \/ \E p \in Procs : ContainerAppClient_show(p)
    \/ \E p \in Procs : create_service_func(p)
    \/ \E p \in Procs : DaprComponentPreviewClient_show(p)
    \/ \E p \in Procs : DaprComponentPreviewClient_create_or_update(p)

Spec == Init /\ [][Next]_vars

(* ------------------------------ Dapr.py -------------------------------- *)
\* get_release_info with the defaults of lines 74-75 applied before the skip
\* check of line 57
get_release_info_DefaultsFirst(release_name, release_namespace, settings) ==
    IF Get(settings, SKIP_EXISTING_DAPR_CHECK_KEY, "false") = "true"
    THEN [ask |-> FALSE, name |-> OrElse(release_name, DEFAULT_RELEASE_NAME),
          namespace |-> OrElse(release_namespace, DEFAULT_RELEASE_NAMESPACE),
          dapr_exists |-> FALSE]
    ELSE IF /\ Truthy(Get(settings, EXISTING_DAPR_RELEASE_NAME_KEY, None))
            /\ Truthy(Get(settings, EXISTING_DAPR_RELEASE_NAMESPACE_KEY, None))
         THEN [ask |-> FALSE, name |-> settings[EXISTING_DAPR_RELEASE_NAME_KEY],
               namespace |-> settings[EXISTING_DAPR_RELEASE_NAMESPACE_KEY],
               dapr_exists |-> TRUE]
         ELSE [ask |-> TRUE, name |-> OrElse(release_name, DEFAULT_RELEASE_NAME),
               namespace |-> OrElse(release_namespace, DEFAULT_RELEASE_NAMESPACE),
               dapr_exists |-> FALSE]

\* get_release_info with "or" for the "and" of lines 63-64
get_release_info_EitherKey(release_name, release_namespace, settings) ==
    IF Get(settings, SKIP_EXISTING_DAPR_CHECK_KEY, "false") = "true"
    THEN [ask |-> FALSE, name |-> release_name, namespace |-> release_namespace,
          dapr_exists |-> FALSE]
    ELSE IF \/ Truthy(Get(settings, EXISTING_DAPR_RELEASE_NAME_KEY, None))
            \/ Truthy(Get(settings, EXISTING_DAPR_RELEASE_NAMESPACE_KEY, None))
         THEN [ask |-> FALSE,
               name |-> Get(settings, EXISTING_DAPR_RELEASE_NAME_KEY, None),
               namespace |-> Get(settings, EXISTING_DAPR_RELEASE_NAMESPACE_KEY, None),
               dapr_exists |-> TRUE]
         ELSE [ask |-> TRUE, name |-> OrElse(release_name, DEFAULT_RELEASE_NAME),
               namespace |-> OrElse(release_namespace, DEFAULT_RELEASE_NAMESPACE),
               dapr_exists |-> FALSE]

\* _get_release_info, lines 55-75: the part that needs no prompt. ask = TRUE:
\* the yes/no prompt of line 79 comes next, with name and namespace defaulted
get_release_info(release_name, release_namespace, settings) ==
    IF Get(settings, SKIP_EXISTING_DAPR_CHECK_KEY, "false") = "true"
    THEN [ask |-> FALSE, name |-> release_name, namespace |-> release_namespace,
          dapr_exists |-> FALSE]
    ELSE IF /\ Truthy(Get(settings, EXISTING_DAPR_RELEASE_NAME_KEY, None))
            /\ Truthy(Get(settings, EXISTING_DAPR_RELEASE_NAMESPACE_KEY, None))
         THEN [ask |-> FALSE, name |-> settings[EXISTING_DAPR_RELEASE_NAME_KEY],
               namespace |-> settings[EXISTING_DAPR_RELEASE_NAMESPACE_KEY],
               dapr_exists |-> TRUE]
         ELSE [ask |-> TRUE, name |-> OrElse(release_name, DEFAULT_RELEASE_NAME),
               namespace |-> OrElse(release_namespace, DEFAULT_RELEASE_NAMESPACE),
               dapr_exists |-> FALSE]

\* OverrideHA with the assignment of line 119 moved under the test of line 116
OverrideHA_OnlyWhenEnabled(dapr_exists, settings) ==
    IF dapr_exists /\ Get(settings, HA_KEY, DEFAULT_HA) = "true"
    THEN Put(settings, HA_KEY, "false")
    ELSE settings

\* Create, lines 114-119: the HA override
OverrideHA(dapr_exists, settings) ==
    IF dapr_exists THEN Put(settings, HA_KEY, "false") ELSE settings

\* Create, lines 126-127: the cluster type default
DefaultClusterType(cluster_type, settings) ==
    IF Lower(cluster_type) = "" \/ Lower(cluster_type) = DEFAULT_CLUSTER_TYPE
    THEN Put(settings, CLUSTER_TYPE_KEY, DEFAULT_CLUSTER_TYPE)
    ELSE settings

\* Create, lines 114-141, given what _get_release_info returned
CreateSettings(a, info, settings) ==
    DefaultClusterType(a.cluster_type, OverrideHA(info.dapr_exists, settings))

CreateReturn(a, info, settings) ==
    [kind |-> "returned",
     extension_instance |->
         [release_train |-> OrElse(a.release_train, DEFAULT_RELEASE_TRAIN),
          scope |-> [cluster |-> [release_namespace |->
                                     OrElse(info.namespace, DEFAULT_RELEASE_NAMESPACE)],
                     namespace |-> None],
          configuration_settings |-> settings],
     release_name |-> info.name,
     create_identity |-> FALSE]

\* _get_release_info returns info: Create runs to its end
Finish(info) ==
    LET settings == CreateSettings(cargs, info, configuration_settings)
    IN  /\ apc' = "returned"
        /\ release' = [name |-> info.name, namespace |-> info.namespace,
                       dapr_exists |-> info.dapr_exists]
        /\ configuration_settings' = settings
        /\ ret' = CreateReturn(cargs, info, settings)

\* ScopeRejected comparing with the wrong literal
ScopeRejected_WrongLiteral(scope) == scope = "Namespace"

\* Create, lines 102-104: the scope check
ScopeRejected(scope) == scope = "namespace"

\* Dapr.Create, up to its return or to the first prompt; a CLI command calls
\* it once
Create(a) ==
    /\ apc = "idle"
    /\ cargs' = a
    /\ IF ScopeRejected(a.scope)
       THEN /\ apc' = "raised"
            /\ ret' = [kind |-> "InvalidArgumentValueError"]
            /\ configuration_settings' = a.configuration_settings
            /\ release' = NoRelease
            /\ prompts' = NoPrompts
       ELSE LET info == get_release_info(a.name, a.release_namespace,
                                         a.configuration_settings)
            IN  IF info.ask
                THEN /\ apc' = "prompt_y_n"
                     /\ release' = [name |-> info.name, namespace |-> info.namespace,
                                    dapr_exists |-> FALSE]
                     /\ prompts' = [y_n |-> 1, text |-> 0]
                     /\ configuration_settings' = a.configuration_settings
                     /\ ret' = NoRet
                ELSE /\ prompts' = NoPrompts
                     /\ apc' = "returned"
                     /\ release' = [name |-> info.name, namespace |-> info.namespace,
                                    dapr_exists |-> info.dapr_exists]
                     /\ configuration_settings' =
                            CreateSettings(a, info, a.configuration_settings)
                     /\ ret' = CreateReturn(a, info, configuration_settings')
    /\ UNCHANGED provVars

\* the user answers prompt_y_n (line 79); on yes the release name is asked for
prompt_y_n(answer) ==
    /\ apc = "prompt_y_n"
    /\ IF answer
       THEN /\ apc' = "prompt_name"
            /\ release' = [release EXCEPT !.dapr_exists = TRUE]
            /\ prompts' = [prompts EXCEPT !.text = @ + 1]
            /\ UNCHANGED <<configuration_settings, ret>>
       ELSE /\ Finish(release)
            /\ UNCHANGED prompts
    /\ UNCHANGED <<cargs, provVars>>

\* the user answers the release name prompt (line 82); the namespace is asked for
prompt_name(text) ==
    /\ apc = "prompt_name"
    /\ apc' = "prompt_namespace"
    /\ release' = [release EXCEPT !.name = OrElse(text, DEFAULT_RELEASE_NAME)]
    /\ prompts' = [prompts EXCEPT !.text = @ + 1]
    /\ UNCHANGED <<cargs, configuration_settings, ret, provVars>>

\* the user answers the namespace prompt (line 86); Create runs to its end
prompt_namespace(text) ==
    /\ apc = "prompt_namespace"
    /\ Finish([release EXCEPT !.namespace = OrElse(text, DEFAULT_RELEASE_NAMESPACE)])
    /\ UNCHANGED <<cargs, prompts, provVars>>

NextAddon ==
    \/ \E a \in CreateInputs : Create(a)
    \/ \E answer \in BOOLEAN : prompt_y_n(answer)
    \/ \E text \in PromptTexts : prompt_name(text)
    \/ \E text \in PromptTexts : prompt_namespace(text)

SpecAddon == InitAddon /\ [][NextAddon]_vars

(* ======================= properties of DaprUtils ======================= *)
LookupFailed == {"notfound", "error", "empty"}
HasServicePhase(p) == args[p].op \in {"provision", "service"}
HasComponentPhase(p) == args[p].op \in {"provision", "component"}
ComponentNameOf(p) ==
    get_dapr_component_name(args[p].component_type, args[p].service_type)

\* C1: an operation (provision or ensureComponentExists) whose
\* (componentType, serviceType) pair is not in the compatibility table has
\* failed with a validation error without any client call having been made.
C1_RejectedBeforeAnyCall ==
    \A p \in Procs :
        (/\ HasComponentPhase(p)
         /\ ~BindingSupported(args[p].component_type, args[p].service_type))
        => /\ calls[p] = NoCalls
           /\ pc[p] = "done" => result[p].kind = "ValidationError"

\* C2 as stated: over sequential invocations against a store whose lookups
\* are reliable, the creation callback is invoked at most once per service
\* and create_or_update at most once per component.
C2_InvokedAtMostOnce ==
    (~overlapped /\ ~lookupFault)
    => /\ \A n \in ServiceNames : svcCreates[n] <= 1
       /\ \A n \in ComponentNames : compCreates[n] <= 1

\* C2 as amended: over sequential invocations against a store whose lookups
\* are reliable, a create is never invoked while the store holds the resource,
\* and it returns a created resource at most once per service and component
\* (a create that failed stored nothing and is invoked again by the re-run).
C2_CreatedAtMostOnce ==
    (~overlapped /\ ~lookupFault)
    => /\ \A n \in ServiceNames : svcCreated[n] <= 1
       /\ \A n \in ComponentNames : compCreated[n] <= 1
       /\ \A p \in Procs :
             /\ pc[p] = "svc_create" => services[args[p].service_name].isNone
             /\ pc[p] = "comp_create" => components[ComponentNameOf(p)].isNone
             /\ ~raced[p]

\* a re-run after a run that created the service and failed in
\* create_or_update: the service is found, the component created
C2_RerunAfterComponentFailure ==
    /\ ~overlapped /\ ~lookupFault /\ runs = 2
    /\ pc["cli1"] = "done" /\ args["cli1"].op = "provision"
    /\ result["cli1"].kind = "ok"
    /\ svcLookup["cli1"] = "found" /\ calls["cli1"].svcCreate = 0
    /\ svcCreates["dapr-redis"] = 1 /\ svcCreated["dapr-redis"] = 1
    /\ compCreates["statestore-redis"] = 2 /\ compCreated["statestore-redis"] = 1

\* C7: when provision returns successfully, the component of the derived
\* name exists and its service binding carries the name "dapr-"+serviceType
\* and the service id obtained in this run.
C7_ComponentPointsAtService ==
    [][\A p \in Procs :
          (/\ pc[p] # "done" /\ pc'[p] = "done"
           /\ args'[p].op = "provision" /\ result'[p].kind = "ok")
          => LET c == components'[get_dapr_component_name(
                          args'[p].component_type, args'[p].service_type)]
             IN  /\ ~c.isNone
                 /\ c.bindName = "dapr-" \o args'[p].service_type
                 /\ c.bindServiceId = result'[p].service_id]_vars

\* C8: check-then-create is not atomic. A process calls the creation
\* callback on a name the store already holds only after its own lookup
\* returned no descriptor; when that lookup truthfully reported not-found,
\* another, concurrent invocation created the name in between, so the
\* callback has been invoked twice for the one name.
C8_CreateAfterStaleLookup ==
    \A p \in Procs :
        raced[p]
        => /\ svcLookup[p] \in LookupFailed
           /\ svcLookup[p] = "notfound"
              => overlapped /\ svcCreates[args[p].service_name] >= 2

\* two concurrent invocations, both lookups reported not-found, both called
\* the creation callback for the same name
C8_CreateInvokedTwice ==
    /\ overlapped
    /\ args["cli1"].service_name = args["cli2"].service_name
    /\ \A p \in Procs : svcLookup[p] = "notfound" /\ calls[p].svcCreate = 1
    /\ svcCreates[args["cli1"].service_name] = 2
    /\ raced["cli1"] # raced["cli2"]

\* the client calls of the service phase finished by process p
ServiceCallsDone(p) ==
    pc[p] \in {"comp_show", "comp_create", "done"}

\* C9: within one invocation each lookup is performed exactly once and never
\* retried, each create at most once: exactly when the lookup failed (not
\* found or any other error) or returned nothing, never when it returned a
\* descriptor; an unsupported type is rejected with neither call.
C9_LookupOnceCreateIffAbsent ==
    \A p \in Procs :
        LET c == calls[p]
            unsupported == args[p].service_type \notin get_supported_services
            rejected == ~BindingSupported(args[p].component_type, args[p].service_type)
            inComponent == \/ pc[p] = "comp_create"
                           \/ pc[p] = "done" /\ result[p].kind = "ok"
                           \/ pc[p] = "done" /\ result[p].msg \in
                                 {"failed to create component",
                                  "component definition is None",
                                  "component id is None"}
        IN  /\ HasServicePhase(p)
               => /\ unsupported
                     => pc[p] = "done" /\ c.svcShow = 0 /\ c.svcCreate = 0
                  /\ ~unsupported
                     => /\ c.svcShow = (IF pc[p] = "svc_show" THEN 0 ELSE 1)
                        /\ pc[p] = "svc_create" => svcLookup[p] \in LookupFailed
                        /\ c.svcCreate =
                              (IF ServiceCallsDone(p) /\ svcLookup[p] \in LookupFailed
                               THEN 1 ELSE 0)
            /\ args[p].op = "component" => c.svcShow = 0 /\ c.svcCreate = 0
            /\ HasComponentPhase(p)
               => /\ rejected => c.compShow = 0 /\ c.compCreate = 0
                  /\ c.compShow = (IF inComponent THEN 1 ELSE 0)
                  /\ pc[p] = "comp_create" => compLookup[p] \in LookupFailed
                  /\ c.compCreate =
                        (IF pc[p] = "done" /\ inComponent /\ compLookup[p] \in LookupFailed
                         THEN 1 ELSE 0)
            /\ args[p].op = "service" => c.compShow = 0 /\ c.compCreate = 0

\* a provision whose service lookup failed with an error (create called once)
\* and whose component lookup returned a descriptor (no create_or_update)
C9_ErrorThenFound ==
    \E p \in Procs :
        /\ pc[p] = "done" /\ args[p].op = "provision" /\ result[p].kind = "ok"
        /\ svcLookup[p] = "error" /\ calls[p].svcShow = 1 /\ calls[p].svcCreate = 1
        /\ compLookup[p] = "found" /\ calls[p].compShow = 1 /\ calls[p].compCreate = 0

\* C10: provision runs service phase, service id check, component phase,
\* component id check in this order; a failed or empty creation or a service
\* descriptor without id aborts it before any component call; it returns
\* (service id, component id) only when both are present and raises otherwise.
C10_OrderedAndAllOrNothing ==
    \A p \in Procs :
        args[p].op = "provision"
        => LET c == calls[p]
               inComponent == \/ pc[p] \in {"comp_show", "comp_create"}
                              \/ c.compShow > 0 \/ c.compCreate > 0
           IN  /\ inComponent
                  => /\ c.svcShow = 1
                     /\ ~service_def[p].isNone
                     /\ service_def[p].id # NoId
                     /\ service_id[p] = service_def[p].id
               /\ pc[p] = "done"
                  => /\ result[p].kind \in {"ok", "ValidationError"}
                     /\ (service_def[p].isNone \/ service_def[p].id = NoId)
                        => /\ result[p].kind = "ValidationError"
                           /\ c.compShow = 0 /\ c.compCreate = 0
                     /\ (component_def[p].isNone \/ component_def[p].id = NoId)
                        => result[p].kind = "ValidationError"
                     /\ result[p].kind = "ok"
                        => /\ result[p].service_id = service_id[p]
                           /\ result[p].service_id # NoId
                           /\ result[p].component_id = component_def[p].id
                           /\ result[p].component_id # NoId
                           /\ c.svcShow = 1 /\ c.compShow = 1
                     /\ result[p].kind = "ValidationError"
                        => result[p].service_id = NoId /\ result[p].component_id = NoId

\* a provision whose creation callback returned a descriptor without id:
\* it failed and made no component call
C10_AbortedOnMissingServiceId ==
    \E p \in Procs :
        /\ pc[p] = "done" /\ args[p].op = "provision"
        /\ calls[p].svcCreate = 1
        /\ ~service_def[p].isNone /\ service_def[p].id = NoId
        /\ result[p].kind = "ValidationError"
        /\ calls[p].compShow = 0 /\ calls[p].compCreate = 0

(* ======================== properties of Dapr.py ======================== *)
SkipRequested ==
    Get(cargs.configuration_settings, SKIP_EXISTING_DAPR_CHECK_KEY, "false") = "true"
BothExistingKeys ==
    /\ Truthy(Get(cargs.configuration_settings, EXISTING_DAPR_RELEASE_NAME_KEY, None))
    /\ Truthy(Get(cargs.configuration_settings, EXISTING_DAPR_RELEASE_NAMESPACE_KEY, None))

\* C3: whenever Create resolved dapr_exists = TRUE (existing-release keys or
\* a yes to the prompt), the configuration settings of the returned extension
\* have global.ha.enabled = "false", whatever the caller supplied.
C3_HADisabledOnExistingDapr ==
    (apc = "returned" /\ release.dapr_exists)
    => LET settings == ret.extension_instance.configuration_settings
       IN  HA_KEY \in DOMAIN settings /\ settings[HA_KEY] = "false"

\* the user answered yes, the caller had passed a value other than "true"
\* or "false"
C3_PromptedWithOddHA ==
    /\ apc = "returned" /\ release.dapr_exists /\ prompts.y_n = 1
    /\ Get(cargs.configuration_settings, HA_KEY, None) = "auto"

\* C4: Create with scope "namespace" raises the invalid-scope error before
\* any prompt and before any change of configuration_settings, and returns
\* no extension.
C4_NamespaceScopeRejectedFirst ==
    (apc # "idle" /\ cargs.scope = "namespace")
    => /\ apc = "raised"
       /\ ret = [kind |-> "InvalidArgumentValueError"]
       /\ prompts = NoPrompts
       /\ configuration_settings = cargs.configuration_settings

\* namespace scope with settings that would have set both the HA key and
\* the cluster type key
C4_RejectedWithOverridesPending ==
    /\ apc = "raised" /\ cargs.scope = "namespace"
    /\ BothExistingKeys /\ ~SkipRequested
    /\ cargs.cluster_type = ""
    /\ HA_KEY \notin DOMAIN configuration_settings
    /\ CLUSTER_TYPE_KEY \notin DOMAIN configuration_settings

\* C5: with skipExistingDaprCheck = "true", _get_release_info returns the
\* requested name and namespace unchanged (None stays None) and
\* dapr_exists = FALSE without a prompt, the existing-release keys
\* notwithstanding.
C5_SkipReturnsRequested ==
    (apc \notin {"idle", "raised"} /\ SkipRequested)
    => /\ apc = "returned"
       /\ release = [name |-> cargs.name, namespace |-> cargs.release_namespace,
                     dapr_exists |-> FALSE]
       /\ ret.release_name = cargs.name
       /\ prompts = NoPrompts

\* skip flag set, both existing-release keys present, nothing requested
C5_SkipOverExistingKeys ==
    /\ apc = "returned" /\ SkipRequested /\ BothExistingKeys
    /\ cargs.name = None /\ cargs.release_namespace = None
    /\ release.name = None

\* C6: without the skip flag, both existing-release keys with non-empty
\* values are returned verbatim with dapr_exists = TRUE and no prompt; with
\* one of them missing or empty the yes/no prompt is issued.
C6_ExistingKeysTrustedOnlyTogether ==
    (apc \notin {"idle", "raised"} /\ ~SkipRequested)
    => IF BothExistingKeys
       THEN /\ apc = "returned"
            /\ release = [name |-> cargs.configuration_settings[EXISTING_DAPR_RELEASE_NAME_KEY],
                          namespace |-> cargs.configuration_settings[EXISTING_DAPR_RELEASE_NAMESPACE_KEY],
                          dapr_exists |-> TRUE]
            /\ prompts = NoPrompts
       ELSE prompts.y_n = 1

\* both keys given while another name and namespace were requested
C6_KeysOverrideRequested ==
    /\ apc = "returned" /\ ~SkipRequested /\ BothExistingKeys
    /\ cargs.name = "my-dapr" /\ cargs.release_namespace = "my-ns"
    /\ release.name = "old-dapr" /\ release.namespace = "old-ns"
====
